---- MODULE Spec2Model ----
(***************************************************************************)
(* Model of UnrealCodeAnalyzer (src/src/clientsse.ts, lines 285-1115): the *)
(* analyzer's fields and caches, its public operations, and the way their  *)
(* async functions run on the JavaScript event loop.  Every async function *)
(* activation is a frame; a frame runs synchronously up to its next await, *)
(* and the continuation of an await is a job on the FIFO microtask queue.  *)
(* All file access in the source is synchronous (readFileSync, glob.sync), *)
(* so the order of the jobs is the order the event loop gives them.        *)
(***************************************************************************)
EXTENDS Integers, Sequences, FiniteSets, TLC

VARIABLES
  initialized,   \* this.initialized
  unrealPath,    \* this.unrealPath ("" models null)
  customPath,    \* this.customPath ("" models null)
  astCache,      \* this.astCache: the keys of the Map, in insertion order
  cacheQueue,    \* this.cacheQueue
  classCache,    \* this.classCache: the entries of the Map, in insertion order
  queryCache,    \* this.queryCache: the keys of the Map
  apiCache,      \* this.apiCache: the entries of the Map, in insertion order
  frames,        \* the async function activations of the current call
  mq,            \* the microtask queue
  call,          \* the current (or last) call of a public operation, as its caller sees it
  readLog,       \* the files read (fs.readFileSync) since the current call began
  parseLog,      \* the parses (parser.parse) since the current call began: the file, and
                 \* whether an error-free tree of it was in the Tree Cache at that moment
  evictLog,      \* the manageCache calls at capacity since the current call began: the
                 \* oldest key of the Map and the key the call deleted (0 if none)
  pre,           \* the analyzer's fields as they were when the current call began
  unreadable,    \* the files whose read throws (environment, fixed per behaviour)
  ncalls         \* the number of calls made so far

vars == <<initialized, unrealPath, customPath, astCache, cacheQueue, classCache,
          queryCache, apiCache, frames, mq, call, readLog, parseLog, evictLog, pre,
          unreadable, ncalls>>

----------------------------------------------------------------------------
(* Bounds of the model.  MAX_CACHE_SIZE, BATCH_SIZE and SEARCH_BATCH_SIZE   *)
(* stand for the program's 1000, 10 and 20, scaled down so that a cache     *)
(* fills and a scan needs several batches with a handful of files.          *)

MAX_CACHE_SIZE == 4
BATCH_SIZE == 2
SEARCH_BATCH_SIZE == 3
MaxCalls == 5
\* The largest number of findClassHierarchy activations of one call
MaxHierarchy == 8

----------------------------------------------------------------------------
(* The file system the analyzer is pointed at.                             *)

Decl(n, s) == [name |-> n, supers |-> s]

File(r, d, e, x, cs) == [root |-> r, dir |-> d, ext |-> e, err |-> x, classes |-> cs]

\* The files, in the order in which glob enumerates them.  err: the parser
\* reports a syntax error for the file (tree.rootNode.hasError()).
Files ==
  << File("UE",   "Core",        "h",   TRUE,  <<Decl("FName", <<>>)>>),
     File("UE",   "CoreUObject", "h",   FALSE, <<Decl("UObject", <<>>)>>),
     File("UE",   "RenderCore",  "h",   FALSE, <<Decl("FRender", <<"FName", "FGone">>),
                                                 Decl("UObject", <<>>)>>),
     File("UE",   "RenderCore",  "h",   FALSE, <<Decl("UActorComponent", <<"UObject">>),
                                                 Decl("AActor", <<"UObject">>)>>),
     File("UE",   "RenderCore",  "cpp", FALSE, <<>>),
     File("UE",   "Launch",      "cpp", FALSE, <<>>),
     File("UE",   "Launch",      "cpp", FALSE, <<>>),
     File("Proj", "Source",      "h",   FALSE, <<Decl("Derived", <<"Base", "Missing", "Mixin", "UObject">>)>>),
     File("Proj", "Source",      "h",   FALSE, <<Decl("Base", <<"Root">>),
                                                 Decl("Mixin", <<>>)>>),
     File("Proj", "Source",      "h",   FALSE, <<Decl("Root", <<"Ghost">>)>>),
     File("Lab",  "Source",      "h",   FALSE, <<Decl("Loop", <<"Loop">>),
                                                 Decl("Ping", <<"Pong">>),
                                                 Decl("Pong", <<"Pang">>),
                                                 Decl("Pang", <<"Ping">>),
                                                 Decl("AActor", <<"Nope">>)>>),
     File("Lab",  "Source",      "h",   FALSE, <<Decl("AActor", <<"Loop">>)>>) >>

FileIds == 1..Len(Files)

\* The directories the callers name.  "Missing" does not exist; "Proj" and
\* "Lab" exist but have no Engine subdirectory.  "Lab" holds a class that
\* names itself as its superclass, three classes that form a cycle, and a
\* class declared in both of its files.
PathArgs == {"UE", "Proj", "Missing"}

CustomPathArgs == {"Proj", "Missing"}

ExistsSync(p) == p \in {"UE", "Proj", "Lab"}

EngineDirExists(p) == p = "UE"

\* The sets of unreadable files a behaviour may start with.
BadChoices == { {}, {3, 4}, {9} }

----------------------------------------------------------------------------
(* Sequences.                                                               *)

Range(s) == {s[i] : i \in 1..Len(s)}

Min(a, b) == IF a < b THEN a ELSE b

Remove(s, x) == SelectSeq(s, LAMBDA y : y # x)

\* Array.prototype.slice(i, i + n) with a 0-based i
Slice(s, i, n) == SubSeq(s, i + 1, Min(Len(s), i + n))

\* glob.sync(pattern, {cwd}): the files under root r, in one of the
\* directories ds, with one of the extensions es, in enumeration order
Glob(r, ds, es) ==
  SelectSeq([i \in 1..Len(Files) |-> i],
            LAMBDA f : Files[f].root = r /\ Files[f].dir \in ds /\ Files[f].ext \in es)

AllDirs == {Files[f].dir : f \in FileIds}

----------------------------------------------------------------------------
(* The mutable store the synchronous code works on, and the Maps.           *)

Store ==
  [ast |-> astCache, q |-> cacheQueue, cls |-> classCache, qc |-> queryCache,
   frames |-> frames, mq |-> mq, reads |-> readLog, parses |-> parseLog, evs |-> evictLog]

Commit(S) ==
  /\ astCache' = S.ast
  /\ cacheQueue' = S.q
  /\ classCache' = S.cls
  /\ queryCache' = S.qc
  /\ frames' = S.frames
  /\ mq' = S.mq
  /\ readLog' = S.reads
  /\ parseLog' = S.parses
  /\ evictLog' = S.evs

NoVal == [t |-> "none"]

Err(m, f) == [t |-> "err", msg |-> m, file |-> f]

ClassInfo(d, f) == [t |-> "info", name |-> d.name, file |-> f, superclasses |-> d.supers]

\* Map.prototype.has / get / set on this.classCache (keyed by class name)
ClassHas(cls, n) == \E j \in 1..Len(cls) : cls[j].name = n

ClassGet(cls, n) == cls[CHOOSE j \in 1..Len(cls) : cls[j].name = n]

ClassSet(cls, info) ==
  IF ClassHas(cls, info.name)
  THEN [j \in 1..Len(cls) |-> IF cls[j].name = info.name THEN info ELSE cls[j]]
  ELSE Append(cls, info)

\* The keys of this.queryCache: <<"pattern", name>> for a key of
\* QUERY_PATTERNS, <<type, identifier>> for the key `${type}-${identifier}` of
\* findReferences (which no pattern name equals).  The constructor pre-caches
\* the four patterns.
QUERY_PATTERNS == {<<"pattern", "CLASS">>, <<"pattern", "FUNCTION">>,
                   <<"pattern", "TYPE_IDENTIFIER">>, <<"pattern", "IDENTIFIER">>}

\* manageCache whose capacity check reads the size the Map had when the
\* current job began: two puts of one job both pass it before either inserts
manageCache_StaleCheck(S, key) ==
  LET full    == Len(astCache) >= MAX_CACHE_SIZE
      shifted == full /\ S.q # <<>>
      q1      == IF shifted THEN Tail(S.q) ELSE S.q
      ast1    == IF shifted THEN Remove(S.ast, Head(S.q)) ELSE S.ast
      ast2    == IF key \in Range(ast1) THEN ast1 ELSE Append(ast1, key)
      deleted == IF shifted /\ Head(S.q) \in Range(S.ast) THEN Head(S.q) ELSE 0
  IN  [S EXCEPT !.ast = ast2, !.q = Append(q1, key),
                !.evs = IF full THEN Append(@, [oldest |-> Head(S.ast), deleted |-> deleted]) ELSE @]

\* manageCache(this.astCache, key, tree)
manageCache(S, key) ==
  LET full    == Len(S.ast) >= MAX_CACHE_SIZE
      shifted == full /\ S.q # <<>>
      q1      == IF shifted THEN Tail(S.q) ELSE S.q
      ast1    == IF shifted THEN Remove(S.ast, Head(S.q)) ELSE S.ast
      ast2    == IF key \in Range(ast1) THEN ast1 ELSE Append(ast1, key)
      deleted == IF shifted /\ Head(S.q) \in Range(S.ast) THEN Head(S.q) ELSE 0
  IN  [S EXCEPT !.ast = ast2, !.q = Append(q1, key),
                !.evs = IF full THEN Append(@, [oldest |-> Head(S.ast), deleted |-> deleted]) ELSE @]

----------------------------------------------------------------------------
(* Frames and microtasks.                                                   *)

\* pmode: how the frame's promise is consumed.  "await": the parent awaits it
\* directly; "map": it was created inside batch.map(...) and Promise.all has
\* not looked at it yet; "all": it is an element of the parent's Promise.all.
Frame(kind, parent, pmode) ==
  [kind |-> kind, parent |-> parent, pmode |-> pmode, f |-> 0, c |-> "", i |-> 0,
   k |-> 0, files |-> <<>>, acc |-> <<>>, pend |-> 0, phase |-> "", allst |-> "",
   st |-> "run", val |-> NoVal]

Task(fr, ev, val) == [fr |-> fr, ev |-> ev, val |-> val]

Enqueue(S, t) == [S EXCEPT !.mq = Append(@, t)]

\* The frame's promise settles (st is "ok" or "err"); whoever awaits it gets a job.
Settle(S, id, st, val) ==
  LET fr == S.frames[id]
      S1 == [S EXCEPT !.frames[id].st = st, !.frames[id].val = val]
  IN  CASE fr.pmode = "await" -> Enqueue(S1, Task(fr.parent, st, val))
        [] fr.pmode = "all"   -> Enqueue(S1, Task(fr.parent, IF st = "ok" THEN "elemok" ELSE "elemerr", val))
        [] OTHER              -> S1

\* Promise.all(batch.map(...)) of frame id: the map has run; Promise.all takes
\* the promises in order, and queues a reaction for those already settled.
RECURSIVE AttachFrom(_, _, _)
AttachFrom(S, id, j) ==
  IF j > Len(S.frames) THEN S
  ELSE LET fr == S.frames[j]
       IN  IF fr.parent = id /\ fr.pmode = "map"
           THEN LET S1 == [S EXCEPT !.frames[j].pmode = "all"]
                    S2 == IF fr.st = "run" THEN S1
                          ELSE Enqueue(S1, Task(id, IF fr.st = "ok" THEN "elemok" ELSE "elemerr", fr.val))
                IN  AttachFrom(S2, id, j + 1)
           ELSE AttachFrom(S, id, j + 1)

PromiseAll(S, id, n) ==
  LET S1 == [S EXCEPT !.frames[id].pend = n, !.frames[id].allst = "pending"]
  IN  IF n = 0
      THEN Enqueue([S1 EXCEPT !.frames[id].allst = "ok"], Task(id, "ok", NoVal))
      ELSE AttachFrom(S1, id, 1)

\* The reaction of Promise.all to one element: the last fulfilment fulfils it,
\* the first rejection rejects it; once settled it ignores the rest.
OnElem(S, t) ==
  LET id == t.fr
      fr == S.frames[id]
  IN  IF t.ev = "elemok"
      THEN LET S1 == [S EXCEPT !.frames[id].pend = fr.pend - 1]
           IN  IF fr.pend = 1 /\ fr.allst = "pending"
               THEN Enqueue([S1 EXCEPT !.frames[id].allst = "ok"], Task(id, "ok", NoVal))
               ELSE S1
      ELSE IF fr.allst = "pending"
           THEN Enqueue([S EXCEPT !.frames[id].allst = "err"], Task(id, "err", t.val))
           ELSE S

----------------------------------------------------------------------------
(* parseFile and the initial scan.                                          *)

\* this.parser.parse(content) of file f
Parsed(S, f) ==
  [S EXCEPT !.parses = Append(@, [f |-> f, hit |-> f \in Range(S.ast) /\ ~Files[f].err])]

\* parseFile(filePath), up to its first await (or its end).  i is the batch
\* the caller took the file from (0 outside a batched scan).
parseFile(S, f, parent, pmode, i) ==
  LET id == Len(S.frames) + 1
      S0 == [S EXCEPT !.frames = Append(@, [Frame("parseFile", parent, pmode) EXCEPT !.f = f, !.i = i]),
                      !.reads = Append(@, f)]
  IN  IF f \in unreadable
      THEN Settle(S0, id, "err", Err("read failed", f))
      ELSE LET reparse == f \notin Range(S0.ast) \/ Files[f].err
               S1 == IF reparse
                     THEN manageCache(Parsed(S0, f), f)
                     ELSE S0
               S2 == [S1 EXCEPT !.qc = @ \cup {<<"pattern", "CLASS">>}]
           IN  IF Files[f].classes = <<>>
               THEN Settle(S2, id, "ok", NoVal)
               ELSE Enqueue([S2 EXCEPT !.frames[id].k = 1], Task(id, "ok", NoVal))

\* parseFile resumed after `await this.extractClassInfo(...)` of its k-th match
parseFileResume(S, id) ==
  LET fr == S.frames[id]
      ds == Files[fr.f].classes
      S1 == [S EXCEPT !.cls = ClassSet(@, ClassInfo(ds[fr.k], fr.f))]
  IN  IF fr.k < Len(ds)
      THEN Enqueue([S1 EXCEPT !.frames[id].k = fr.k + 1], Task(id, "ok", NoVal))
      ELSE Settle(S1, id, "ok", NoVal)

\* The files taken all at once, as one batch
Batches_Whole(files, size) ==
  IF files = <<>> THEN <<>> ELSE <<files>>

\* files.slice(i, i + size) for i = 0, size, 2 * size, ...
RECURSIVE Batches(_, _)
Batches(files, size) ==
  IF files = <<>> THEN <<>>
  ELSE <<Slice(files, 0, size)>> \o Batches(SubSeq(files, Min(Len(files), size) + 1, Len(files)), size)

\* batch.map(file => this.parseFile(file)) followed by Promise.all
RECURSIVE MapParseFile(_, _, _, _)
MapParseFile(S, id, batch, i) ==
  IF batch = <<>> THEN S
  ELSE MapParseFile(parseFile(S, Head(batch), id, "map", i), id, Tail(batch), i)

\* batch.map(async (file) => { await this.parseFile(file); ... of analyzeSubsystem
RECURSIVE MapSubsystemFile(_, _, _, _)
MapSubsystemFile(S, id, batch, i) ==
  IF batch = <<>> THEN S
  ELSE LET kid == Len(S.frames) + 1
           S1  == [S EXCEPT !.frames = Append(@, [Frame("subsystemFile", id, "map")
                                                  EXCEPT !.f = Head(batch), !.i = i])]
       IN  MapSubsystemFile(parseFile(S1, Head(batch), kid, "await", i), id, Tail(batch), i)

\* The i-th batch of a scan that awaits inside its map: the map, then Promise.all
StartBatch(S, id, i) ==
  LET batch == S.frames[id].files[i]
      S0 == [S EXCEPT !.frames[id].i = i]
      S1 == IF S.frames[id].kind = "analyzeSubsystem"
            THEN MapSubsystemFile(S0, id, batch, i)
            ELSE MapParseFile(S0, id, batch, i)
  IN  PromiseAll(S1, id, Len(batch))

\* The batches of buildInitialCache: the two engine directories when an
\* engine path is set, the custom root otherwise.
InitialBatches(up, cp) ==
  IF up # ""
  THEN Batches(Glob(up, {"Core"}, {"h"}), BATCH_SIZE) \o Batches(Glob(up, {"CoreUObject"}, {"h"}), BATCH_SIZE)
  ELSE Batches(Glob(cp, AllDirs, {"h"}), BATCH_SIZE)

\* buildInitialCache(), up to its first await
buildInitialCache(S, parent, up, cp) ==
  LET id == Len(S.frames) + 1
      S0 == [S EXCEPT !.frames = Append(@, [Frame("buildInitialCache", parent, "await")
                                            EXCEPT !.files = InitialBatches(up, cp)])]
  IN  IF up = "" /\ cp = ""
      THEN Settle(S0, id, "err", Err("No valid path configured", 0))
      ELSE IF S0.frames[id].files = <<>>
           THEN Settle(S0, id, "ok", NoVal)
           ELSE StartBatch(S0, id, 1)

\* subsystemDirs[subsystem]; "" models undefined
SubsystemDir(name) ==
  CASE name = "Rendering"  -> "RenderCore"
    [] name = "Physics"    -> "PhysicsCore"
    [] name = "Audio"      -> "AudioCore"
    [] name = "Networking" -> "Networking"
    [] name = "Input"      -> "InputCore"
    [] name = "AI"         -> "AIModule"
    [] name = "Animation"  -> "AnimationCore"
    [] name = "UI"         -> "UMG"
    [] OTHER               -> ""

\* fs.existsSync(path.join(this.unrealPath, subsystemDir)): the engine tree of
\* the model has a RenderCore directory and an empty PhysicsCore directory
SubsystemDirExists(up, d) == up = "UE" /\ d \in {"RenderCore", "PhysicsCore"}

\* A batched scan resumed after `await Promise.all(...)`
ScanResume(S, t) ==
  LET id == t.fr
      fr == S.frames[id]
  IN  IF t.ev = "err" THEN Settle(S, id, "err", t.val)
      ELSE IF fr.i < Len(fr.files)
           THEN StartBatch(S, id, fr.i + 1)
           ELSE IF fr.kind = "analyzeSubsystem"
           THEN Settle(S, id, "ok", [t |-> "subsystem", name |-> fr.c, mainClasses |-> fr.acc,
                                     sourceFiles |-> Glob(unrealPath, {SubsystemDir(fr.c)}, {"h", "cpp"})])
           ELSE Settle(S, id, "ok", NoVal)

----------------------------------------------------------------------------
(* analyzeClass and findClassHierarchy.                                     *)

\* this.customPath || this.unrealPath
SearchPath == IF customPath # "" THEN customPath ELSE unrealPath

\* analyzeClass without its `if (!this.initialized)` guard
analyzeClass_Unguarded(S, c, parent) ==
  LET id    == Len(S.frames) + 1
      files == Glob(SearchPath, AllDirs, {"h"})
      S0    == [S EXCEPT !.frames = Append(@, [Frame("analyzeClass", parent, "await")
                                               EXCEPT !.c = c, !.files = files])]
  IN  IF ClassHas(S0.cls, c) THEN Settle(S0, id, "ok", ClassGet(S0.cls, c))
      ELSE IF SearchPath = "" THEN Settle(S0, id, "err", Err("No valid search path configured", 0))
      ELSE IF files = <<>> THEN Settle(S0, id, "err", Err("Class not found", 0))
      ELSE parseFile([S0 EXCEPT !.frames[id].i = 1], files[1], id, "await", 0)

\* analyzeClass(className), up to its first await (or its end)
analyzeClass(S, c, parent) ==
  LET id    == Len(S.frames) + 1
      files == Glob(SearchPath, AllDirs, {"h"})
      S0    == [S EXCEPT !.frames = Append(@, [Frame("analyzeClass", parent, "await")
                                               EXCEPT !.c = c, !.files = files])]
  IN  IF ~initialized THEN Settle(S0, id, "err", Err("Analyzer not initialized", 0))
      ELSE IF ClassHas(S0.cls, c) THEN Settle(S0, id, "ok", ClassGet(S0.cls, c))
      ELSE IF SearchPath = "" THEN Settle(S0, id, "err", Err("No valid search path configured", 0))
      ELSE IF files = <<>> THEN Settle(S0, id, "err", Err("Class not found", 0))
      ELSE parseFile([S0 EXCEPT !.frames[id].i = 1], files[1], id, "await", 0)

\* analyzeClass that looks the class up only after the last file
analyzeClassResume_ScanAll(S, t) ==
  LET id == t.fr
      fr == S.frames[id]
  IN  IF t.ev = "err" THEN Settle(S, id, "err", t.val)
      ELSE IF fr.i < Len(fr.files)
           THEN parseFile([S EXCEPT !.frames[id].i = fr.i + 1], fr.files[fr.i + 1], id, "await", 0)
           ELSE IF ClassHas(S.cls, fr.c) THEN Settle(S, id, "ok", ClassGet(S.cls, fr.c))
           ELSE Settle(S, id, "err", Err("Class not found", 0))

\* analyzeClass resumed after `await this.parseFile(file)`
analyzeClassResume(S, t) ==
  LET id == t.fr
      fr == S.frames[id]
  IN  IF t.ev = "err" THEN Settle(S, id, "err", t.val)
      ELSE IF ClassHas(S.cls, fr.c) THEN Settle(S, id, "ok", ClassGet(S.cls, fr.c))
      ELSE IF fr.i < Len(fr.files)
           THEN parseFile([S EXCEPT !.frames[id].i = fr.i + 1], fr.files[fr.i + 1], id, "await", 0)
           ELSE Settle(S, id, "err", Err("Class not found", 0))

\* findClassHierarchy(className), up to `await this.analyzeClass(className)`
findClassHierarchy(S, c, parent) ==
  LET id == Len(S.frames) + 1
      S0 == [S EXCEPT !.frames = Append(@, [Frame("findClassHierarchy", parent, "await")
                                            EXCEPT !.c = c, !.phase = "analyze"])]
  IN  analyzeClass(S0, c, id)

\* c is the class of frame id or of one of the activations it descends from
RECURSIVE OnPath(_, _, _)
OnPath(S, id, c) ==
  IF id = 0 THEN FALSE
  ELSE IF S.frames[id].kind = "findClassHierarchy" /\ S.frames[id].c = c THEN TRUE
  ELSE OnPath(S, S.frames[id].parent, c)

\* The map over the superclasses with a cycle guard: a superclass that is
\* already being expanded is not expanded again
RECURSIVE MapSuperclasses_Guarded(_, _, _)
MapSuperclasses_Guarded(S, id, supers) ==
  IF supers = <<>> THEN S
  ELSE LET kid == Len(S.frames) + 1
           S1  == [S EXCEPT !.frames = Append(@, [Frame("superclass", id, "map")
                                                  EXCEPT !.c = Head(supers)])]
       IN  IF OnPath(S, id, Head(supers))
           THEN MapSuperclasses_Guarded([S1 EXCEPT !.frames[kid].st = "ok"], id, Tail(supers))
           ELSE MapSuperclasses_Guarded(findClassHierarchy(S1, Head(supers), kid), id, Tail(supers))

\* classInfo.superclasses.map(async (superclass) => { try { await this.findClassHierarchy(...
RECURSIVE MapSuperclasses(_, _, _)
MapSuperclasses(S, id, supers) ==
  IF supers = <<>> THEN S
  ELSE LET kid == Len(S.frames) + 1
           S1  == [S EXCEPT !.frames = Append(@, [Frame("superclass", id, "map")
                                                  EXCEPT !.c = Head(supers)])]
       IN  MapSuperclasses(findClassHierarchy(S1, Head(supers), kid), id, Tail(supers))

Node(c, supers) == [t |-> "node", className |-> c, superclasses |-> supers]

\* findClassHierarchy resumed: after analyzeClass (phase "analyze"), or after
\* the Promise.all over its superclasses (phase "join")
findClassHierarchyResume(S, t) ==
  LET id == t.fr
      fr == S.frames[id]
  IN  IF fr.phase = "analyze"
      THEN IF t.ev = "err" THEN Settle(S, id, "err", t.val)
           ELSE LET S1 == [S EXCEPT !.frames[id].phase = "join", !.frames[id].c = t.val.name]
                    S2 == MapSuperclasses(S1, id, t.val.superclasses)
                IN  PromiseAll(S2, id, Len(t.val.superclasses))
      ELSE IF t.ev = "err" THEN Settle(S, id, "err", t.val)
      ELSE Settle(S, id, "ok", Node(fr.c, fr.acc))

\* The closure of one superclass without its try / catch
superclassResume_NoCatch(S, t) ==
  LET id == t.fr
      fr == S.frames[id]
  IN  IF t.ev = "ok"
      THEN Settle([S EXCEPT !.frames[fr.parent].acc = Append(@, t.val)], id, "ok", NoVal)
      ELSE Settle(S, id, "err", t.val)

\* The closure of one superclass resumed: push the sub-hierarchy, or swallow
\* the error (catch)
superclassResume(S, t) ==
  LET id == t.fr
      fr == S.frames[id]
  IN  IF t.ev = "ok"
      THEN Settle([S EXCEPT !.frames[fr.parent].acc = Append(@, t.val)], id, "ok", NoVal)
      ELSE Settle(S, id, "ok", NoVal)

----------------------------------------------------------------------------
(* findReferences and searchCode.                                           *)

\* The type_identifier nodes of a file: each declared class name and each of
\* its base classes, with tree-sitter's 0-based row and column
RECURSIVE TypeIdsFrom(_, _)
TypeIdsFrom(ds, k) ==
  IF k > Len(ds) THEN <<>>
  ELSE <<[text |-> ds[k].name, row |-> k - 1, col |-> 6]>>
       \o [j \in 1..Len(ds[k].supers) |-> [text |-> ds[k].supers[j], row |-> k - 1, col |-> 6 + 10 * j]]
       \o TypeIdsFrom(ds, k + 1)

TypeIds(f) == TypeIdsFrom(Files[f].classes, 1)

\* query.matches(tree.rootNode) of findReferences, mapped to CodeReference
FileReferences(f, identifier, type) ==
  LET hits == IF type = "class"
              THEN SelectSeq(TypeIds(f), LAMBDA n : n.text = identifier)
              ELSE <<>>
  IN  [j \in 1..Len(hits) |-> [file |-> f, line |-> hits[j].row + 1, column |-> hits[j].col + 1]]

\* One batch of findReferences: every closure of the map runs to its end
\* (none awaits).  bad is the first file of the batch whose read threw.
RECURSIVE MapFindReferences(_, _, _, _)
MapFindReferences(S, batch, identifier, type) ==
  IF batch = <<>> THEN [S |-> S, refs |-> <<>>, bad |-> 0]
  ELSE LET f  == Head(batch)
           S0 == [S EXCEPT !.reads = Append(@, f)]
       IN  IF f \in unreadable
           THEN LET r == MapFindReferences(S0, Tail(batch), identifier, type)
                IN  [r EXCEPT !.bad = f]
           ELSE LET S1 == IF f \notin Range(S0.ast)
                          THEN manageCache(Parsed(S0, f), f)
                          ELSE S0
                    S2 == [S1 EXCEPT !.qc = @ \cup {<<type, identifier>>}]
                    r  == MapFindReferences(S2, Tail(batch), identifier, type)
                IN  [r EXCEPT !.refs = FileReferences(f, identifier, type) \o @]

\* The text of the files searchCode reads: lines of characters
Text(f) ==
  CASE f = 3 -> << <<"/", "/", " ", "a", "b">>, <<"x", " ", "A", "b", ";", " ", "/", "/", "a", "b">> >>
    [] f = 5 -> << <<" ", "/", "*", "a", "b">>, <<"a", "b">>, <<"a", "b", "a", "b">>, <<"A", "B">> >>
    [] OTHER -> << <<"c">> >>

\* toLowerCase / the i flag, for the letters that occur
Lower(ch) ==
  CASE ch = "A" -> "a"
    [] ch = "B" -> "b"
    [] ch = "C" -> "c"
    [] ch = "D" -> "d"
    [] ch = "F" -> "f"
    [] ch = "G" -> "g"
    [] ch = "L" -> "l"
    [] ch = "M" -> "m"
    [] ch = "N" -> "n"
    [] ch = "O" -> "o"
    [] ch = "P" -> "p"
    [] ch = "R" -> "r"
    [] ch = "S" -> "s"
    [] ch = "U" -> "u"
    [] OTHER -> ch

\* the least 0-based index at which pat occurs in line, -1 if none (indexOf)
IndexOf(line, pat) ==
  LET at == {p \in 1..(Len(line) - Len(pat) + 1) : SubSeq(line, p, p + Len(pat) - 1) = pat}
  IN  IF at = {} THEN -1 ELSE (CHOOSE p \in at : \A r \in at : p <= r) - 1

LowerSeq(s) == [j \in 1..Len(s) |-> Lower(s[j])]

\* line.trim(): drop leading and trailing blanks
RECURSIVE TrimStart(_)
TrimStart(line) == IF line # <<>> /\ Head(line) = " " THEN TrimStart(Tail(line)) ELSE line

StartsWith(line, pat) == Len(line) >= Len(pat) /\ SubSeq(line, 1, Len(pat)) = pat

\* new RegExp(query, 'gi').test(line) for a query without metacharacters,
\* with lastIndex 0 at every test (reset by the code after a match, by test
\* itself after a failure)
RegexTest(query, line) == IndexOf(LowerSeq(line), LowerSeq(query)) >= 0

\* searchCode's file closure with startsWith applied to the untrimmed line
SearchFile_NoTrim(f, query, includeComments) ==
  LET lines == Text(f)
      keep  == {i \in 1..Len(lines) :
                  /\ includeComments \/ ~(StartsWith(lines[i], <<"/", "/">>)
                                          \/ StartsWith(lines[i], <<"/", "*">>))
                  /\ RegexTest(query, lines[i])}
      idx   == SelectSeq([i \in 1..Len(lines) |-> i], LAMBDA i : i \in keep)
  IN  [j \in 1..Len(idx) |-> [file |-> f, line |-> idx[j], column |-> IndexOf(lines[idx[j]], query) + 1]]

\* The CodeReferences searchCode takes from one file
SearchFile(f, query, includeComments) ==
  LET lines == Text(f)
      keep  == {i \in 1..Len(lines) :
                  /\ includeComments \/ ~(StartsWith(TrimStart(lines[i]), <<"/", "/">>)
                                          \/ StartsWith(TrimStart(lines[i]), <<"/", "*">>))
                  /\ RegexTest(query, lines[i])}
      idx   == SelectSeq([i \in 1..Len(lines) |-> i], LAMBDA i : i \in keep)
  IN  [j \in 1..Len(idx) |-> [file |-> f, line |-> idx[j], column |-> IndexOf(lines[idx[j]], query) + 1]]

RECURSIVE MapSearchCode(_, _, _, _)
MapSearchCode(S, batch, query, includeComments) ==
  IF batch = <<>> THEN [S |-> S, refs |-> <<>>, bad |-> 0]
  ELSE LET f  == Head(batch)
           S0 == [S EXCEPT !.reads = Append(@, f)]
           r  == MapSearchCode(S0, Tail(batch), query, includeComments)
       IN  IF f \in unreadable THEN [r EXCEPT !.bad = f]
           ELSE [r EXCEPT !.refs = SearchFile(f, query, includeComments) \o @]

\* The i-th batch of findReferences or searchCode, and the job that resumes
\* the operation once Promise.all has settled
StartSyncBatch(S, id, i) ==
  LET fr == S.frames[id]
      r  == IF fr.kind = "findReferences"
            THEN MapFindReferences(S, fr.files[i], fr.c, fr.phase)
            ELSE MapSearchCode(S, fr.files[i], fr.c, fr.phase)
      S1 == [r.S EXCEPT !.frames[id].i = i]
  IN  IF r.bad # 0
      THEN Enqueue(S1, Task(id, "err", Err("read failed", r.bad)))
      ELSE Enqueue(S1, Task(id, "ok", [t |-> "refs", refs |-> r.refs]))

\* A scan that skips a failed batch and goes on with the next
SyncScanResume_SkipFailed(S, t) ==
  LET id == t.fr
      fr == S.frames[id]
      S1 == IF t.ev = "err" THEN S ELSE [S EXCEPT !.frames[id].acc = @ \o t.val.refs]
  IN  IF fr.i < Len(fr.files)
      THEN StartSyncBatch(S1, id, fr.i + 1)
      ELSE Settle(S1, id, "ok", [t |-> "refs", refs |-> S1.frames[id].acc])

\* findReferences / searchCode resumed after `await Promise.all(...)`
SyncScanResume(S, t) ==
  LET id == t.fr
      fr == S.frames[id]
  IN  IF t.ev = "err" THEN Settle(S, id, "err", t.val)
      ELSE LET S1 == [S EXCEPT !.frames[id].acc = @ \o t.val.refs]
           IN  IF fr.i < Len(fr.files)
               THEN StartSyncBatch(S1, id, fr.i + 1)
               ELSE Settle(S1, id, "ok", [t |-> "refs", refs |-> S1.frames[id].acc])

\* A batched operation with its files, up to its first await
SyncScan(S, kind, files, size, c, phase) ==
  LET S0 == [S EXCEPT !.frames = Append(@, [Frame(kind, 0, "await")
                                            EXCEPT !.files = Batches(files, size), !.c = c, !.phase = phase])]
  IN  IF files = <<>>
      THEN Settle(S0, 1, "ok", [t |-> "refs", refs |-> <<>>])
      ELSE StartSyncBatch(S0, 1, 1)

----------------------------------------------------------------------------
(* analyzeSubsystem.                                                        *)

\* The closure of one header resumed after `await this.parseFile(file)`: it
\* reads and parses the file once more and collects the class names
subsystemFileResume(S, t) ==
  LET id == t.fr
      fr == S.frames[id]
      ds == Files[fr.f].classes
      S0 == [S EXCEPT !.reads = Append(@, fr.f)]
  IN  IF t.ev = "err" THEN Settle(S, id, "err", t.val)
      ELSE IF fr.f \in unreadable THEN Settle(S0, id, "err", Err("read failed", fr.f))
      ELSE LET S1 == Parsed(S0, fr.f)
           IN  IF <<"pattern", "CLASS">> \notin S1.qc THEN Settle(S1, id, "ok", NoVal)
               ELSE Settle([S1 EXCEPT !.frames[fr.parent].acc = @ \o [j \in 1..Len(ds) |-> ds[j].name]],
                           id, "ok", NoVal)

----------------------------------------------------------------------------
(* The calls of the public operations.                                      *)

Fields ==
  [initialized |-> initialized, unrealPath |-> unrealPath, customPath |-> customPath,
   ast |-> astCache, q |-> cacheQueue, cls |-> classCache, qc |-> queryCache, api |-> apiCache]

Idle == call.status # "running" /\ mq = <<>> /\ ncalls < MaxCalls

\* The store at the start of a call: one frame for the operation itself
Begin(kind) ==
  [Store EXCEPT !.frames = <<Frame(kind, 0, "await")>>, !.reads = <<>>, !.parses = <<>>, !.evs = <<>>]

Keep == UNCHANGED <<initialized, unrealPath, customPath, apiCache, unreadable>>

KeepCall == UNCHANGED <<call, ncalls, pre>>

Begin0 == [Store EXCEPT !.frames = <<>>, !.reads = <<>>, !.parses = <<>>, !.evs = <<>>]

Called(op, arg) ==
  /\ call' = [op |-> op, arg |-> arg, status |-> "running", result |-> NoVal]
  /\ ncalls' = ncalls + 1
  /\ pre' = Fields

\* initialize that stores the path before it looks for the Engine directory
initialize_StoreFirst(enginePath) ==
  /\ Idle
  /\ Called("initialize", enginePath)
  /\ IF ~ExistsSync(enginePath)
     THEN /\ Commit(Settle(Begin("initialize"), 1, "err", Err("Invalid Unreal Engine path: Directory does not exist", 0)))
          /\ UNCHANGED <<initialized, unrealPath, customPath>>
     ELSE IF ~EngineDirExists(enginePath)
     THEN /\ unrealPath' = enginePath
          /\ Commit(Settle(Begin("initialize"), 1, "err", Err("Invalid Unreal Engine path: Engine directory not found", 0)))
          /\ UNCHANGED <<initialized, customPath>>
     ELSE /\ unrealPath' = enginePath
          /\ initialized' = TRUE
          /\ Commit(buildInitialCache(Begin("initialize"), 1, enginePath, customPath))
          /\ UNCHANGED customPath
  /\ UNCHANGED <<apiCache, unreadable>>

initialize(enginePath) ==
  /\ Idle
  /\ Called("initialize", enginePath)
  /\ IF ~ExistsSync(enginePath)
     THEN /\ Commit(Settle(Begin("initialize"), 1, "err", Err("Invalid Unreal Engine path: Directory does not exist", 0)))
          /\ UNCHANGED <<initialized, unrealPath, customPath>>
     ELSE IF ~EngineDirExists(enginePath)
     THEN /\ Commit(Settle(Begin("initialize"), 1, "err", Err("Invalid Unreal Engine path: Engine directory not found", 0)))
          /\ UNCHANGED <<initialized, unrealPath, customPath>>
     ELSE /\ unrealPath' = enginePath
          /\ initialized' = TRUE
          /\ Commit(buildInitialCache(Begin("initialize"), 1, enginePath, customPath))
          /\ UNCHANGED customPath
  /\ UNCHANGED <<apiCache, unreadable>>

\* initializeCustomCodebase that marks the analyzer uninitialized when the
\* path is rejected
initializeCustomCodebase_Reset(path) ==
  /\ Idle
  /\ Called("initializeCustomCodebase", path)
  /\ IF ~ExistsSync(path)
     THEN /\ Commit(Settle(Begin("initialize"), 1, "err", Err("Invalid custom codebase path: Directory does not exist", 0)))
          /\ initialized' = FALSE
          /\ UNCHANGED <<unrealPath, customPath>>
     ELSE /\ customPath' = path
          /\ initialized' = TRUE
          /\ Commit(buildInitialCache(Begin("initialize"), 1, unrealPath, path))
          /\ UNCHANGED unrealPath
  /\ UNCHANGED <<apiCache, unreadable>>

initializeCustomCodebase(path) ==
  /\ Idle
  /\ Called("initializeCustomCodebase", path)
  /\ IF ~ExistsSync(path)
     THEN /\ Commit(Settle(Begin("initialize"), 1, "err", Err("Invalid custom codebase path: Directory does not exist", 0)))
          /\ UNCHANGED <<initialized, unrealPath, customPath>>
     ELSE /\ customPath' = path
          /\ initialized' = TRUE
          /\ Commit(buildInitialCache(Begin("initialize"), 1, unrealPath, path))
          /\ UNCHANGED unrealPath
  /\ UNCHANGED <<apiCache, unreadable>>

analyzeClassCall(className) ==
  /\ Idle
  /\ Called("analyzeClass", className)
  /\ Commit(analyzeClass(Begin0, className, 0))
  /\ Keep

findClassHierarchyCall(className) ==
  /\ Idle
  /\ Called("findClassHierarchy", className)
  /\ Commit(findClassHierarchy(Begin0, className, 0))
  /\ Keep

findReferences(identifier, type) ==
  /\ Idle
  /\ Called("findReferences", <<identifier, type>>)
  /\ IF ~initialized
     THEN Commit(Settle(Begin("findReferences"), 1, "err", Err("Analyzer not initialized", 0)))
     ELSE IF SearchPath = ""
     THEN Commit(Settle(Begin("findReferences"), 1, "err", Err("No valid search path configured", 0)))
     ELSE Commit(SyncScan(Begin0, "findReferences", Glob(SearchPath, AllDirs, {"h", "cpp"}),
                          BATCH_SIZE, identifier, type))
  /\ Keep

\* filePattern is given as the set of extensions it matches
searchCode(query, filePattern, includeComments) ==
  /\ Idle
  /\ Called("searchCode", <<query, filePattern, includeComments>>)
  /\ IF ~initialized
     THEN Commit(Settle(Begin("searchCode"), 1, "err", Err("Analyzer not initialized", 0)))
     ELSE IF unrealPath = ""
     THEN Commit(Settle(Begin("searchCode"), 1, "err", Err("No valid search path configured", 0)))
     ELSE Commit(SyncScan(Begin0, "searchCode", Glob(unrealPath, AllDirs, filePattern),
                          SEARCH_BATCH_SIZE, query, includeComments))
  /\ Keep

analyzeSubsystem(subsystem) ==
  /\ Idle
  /\ Called("analyzeSubsystem", subsystem)
  /\ LET dir     == SubsystemDir(subsystem)
         sources == Glob(unrealPath, {dir}, {"h", "cpp"})
         headers == SelectSeq(sources, LAMBDA f : Files[f].ext = "h")
         S0      == [Begin("analyzeSubsystem") EXCEPT !.frames[1].files = Batches(headers, BATCH_SIZE),
                                                      !.frames[1].c = subsystem]
     IN  IF ~initialized
         THEN Commit(Settle(S0, 1, "err", Err("Analyzer not initialized", 0)))
         ELSE IF unrealPath = ""
         THEN Commit(Settle(S0, 1, "err", Err("Unreal Engine path not configured", 0)))
         ELSE IF dir = ""
         THEN Commit(Settle(S0, 1, "err", Err("Unknown subsystem", 0)))
         ELSE IF ~SubsystemDirExists(unrealPath, dir)
         THEN Commit(Settle(S0, 1, "err", Err("Subsystem directory not found", 0)))
         ELSE IF headers = <<>>
         THEN Commit(Settle(S0, 1, "ok", [t |-> "subsystem", name |-> subsystem,
                                          mainClasses |-> <<>>, sourceFiles |-> sources]))
         ELSE Commit(StartBatch(S0, 1, 1))
  /\ Keep

\* The least 0-based index >= from at which pat occurs in line, -1 if none
IndexOfFrom(line, pat, from) ==
  LET at == {p \in (from + 1)..(Len(line) - Len(pat) + 1) : SubSeq(line, p, p + Len(pat) - 1) = pat}
  IN  IF at = {} THEN -1 ELSE (CHOOSE p \in at : \A r \in at : p <= r) - 1

\* regex.test(line) of a global, case-insensitive RegExp whose lastIndex is
\* what the previous test left: the search starts at lastIndex; a match moves
\* lastIndex behind itself, a failure sets it to 0
RegexTestAt(query, line, lastIndex) ==
  LET at == IndexOfFrom(LowerSeq(line), LowerSeq(query), lastIndex)
  IN  IF at < 0 THEN [hit |-> FALSE, lastIndex |-> 0]
      ELSE [hit |-> TRUE, lastIndex |-> at + Len(query)]

\* The line loop of the sequential searchCode over lines i.. of file f
RECURSIVE SearchLinesSequential(_, _, _, _)
SearchLinesSequential(f, i, query, lastIndex) ==
  IF i > Len(Text(f)) THEN [refs |-> <<>>, lastIndex |-> lastIndex]
  ELSE LET t == RegexTestAt(query, Text(f)[i], lastIndex)
           r == SearchLinesSequential(f, i + 1, query, t.lastIndex)
       IN  IF t.hit
           THEN [r EXCEPT !.refs = <<[file |-> f, line |-> i,
                                      column |-> IndexOf(Text(f)[i], query) + 1]>> \o @]
           ELSE r

\* The file loop of the sequential searchCode: one regex for all files; the
\* first unreadable file (bad) ends it
RECURSIVE SearchFilesSequential(_, _, _)
SearchFilesSequential(fs, query, lastIndex) ==
  IF fs = <<>> THEN [refs |-> <<>>, reads |-> <<>>, bad |-> 0]
  ELSE IF Head(fs) \in unreadable THEN [refs |-> <<>>, reads |-> <<Head(fs)>>, bad |-> Head(fs)]
  ELSE LET one  == SearchLinesSequential(Head(fs), 1, query, lastIndex)
           rest == SearchFilesSequential(Tail(fs), query, one.lastIndex)
       IN  [rest EXCEPT !.refs = one.refs \o @, !.reads = <<Head(fs)>> \o @]

\* searchCode of the sequential analyzer.  It has no await: the call runs to
\* its end at once.  It passes unrealPath to glob.sync as cwd even when it is
\* null; what glob makes of that is left open (it throws, or finds nothing).
searchCodeSequential(query, filePattern, includeComments) ==
  /\ Idle
  /\ Called("searchCodeSequential", <<query, filePattern, includeComments>>)
  /\ \E nullCwd \in {"throws", "empty"} :
       LET S0 == Begin("searchCodeSequential")
           r  == SearchFilesSequential(Glob(unrealPath, AllDirs, filePattern), query, 0)
           S1 == [S0 EXCEPT !.reads = r.reads]
       IN  IF ~initialized
           THEN Commit(Settle(S0, 1, "err", Err("Analyzer not initialized", 0)))
           ELSE IF unrealPath = "" /\ nullCwd = "throws"
           THEN Commit(Settle(S0, 1, "err", Err("invalid cwd", 0)))
           ELSE IF r.bad # 0
           THEN Commit(Settle(S1, 1, "err", Err("read failed", r.bad)))
           ELSE Commit(Settle(S1, 1, "ok", [t |-> "refs", refs |-> r.refs]))
  /\ Keep

\* The characters of the strings that classes, categories, modules and
\* queries are made of
Chars(s) ==
  CASE s = "FName" -> <<"F", "N", "a", "m", "e">>
    [] s = "UObject" -> <<"U", "O", "b", "j", "e", "c", "t">>
    [] s = "FRender" -> <<"F", "R", "e", "n", "d", "e", "r">>
    [] s = "FGone" -> <<"F", "G", "o", "n", "e">>
    [] s = "AActor" -> <<"A", "A", "c", "t", "o", "r">>
    [] s = "UActorComponent" -> <<"U", "A", "c", "t", "o", "r", "C", "o", "m", "p", "o", "n", "e", "n", "t">>
    [] s = "Derived" -> <<"D", "e", "r", "i", "v", "e", "d">>
    [] s = "Base" -> <<"B", "a", "s", "e">>
    [] s = "Missing" -> <<"M", "i", "s", "s", "i", "n", "g">>
    [] s = "Mixin" -> <<"M", "i", "x", "i", "n">>
    [] s = "Root" -> <<"R", "o", "o", "t">>
    [] s = "Ghost" -> <<"G", "h", "o", "s", "t">>
    [] s = "Loop" -> <<"L", "o", "o", "p">>
    [] s = "Ping" -> <<"P", "i", "n", "g">>
    [] s = "Pong" -> <<"P", "o", "n", "g">>
    [] s = "Pang" -> <<"P", "a", "n", "g">>
    [] s = "Nope" -> <<"N", "o", "p", "e">>
    [] s = "Object" -> <<"O", "b", "j", "e", "c", "t">>
    [] s = "Actor" -> <<"A", "c", "t", "o", "r">>
    [] s = "Structure" -> <<"S", "t", "r", "u", "c", "t", "u", "r", "e">>
    [] s = "Component" -> <<"C", "o", "m", "p", "o", "n", "e", "n", "t">>
    [] s = "Miscellaneous" -> <<"M", "i", "s", "c", "e", "l", "l", "a", "n", "e", "o", "u", "s">>
    [] s = "Core" -> <<"C", "o", "r", "e">>
    [] s = "CoreUObject" -> <<"C", "o", "r", "e", "U", "O", "b", "j", "e", "c", "t">>
    [] s = "RenderCore" -> <<"R", "e", "n", "d", "e", "r", "C", "o", "r", "e">>
    [] s = "actor" -> <<"a", "c", "t", "o", "r">>
    [] s = "" -> <<>>

\* a.toLowerCase().includes(b) for a lower-case b
IncludesLower(a, b) == IndexOf(LowerSeq(a), b) >= 0

\* determineCategory(classInfo)
determineCategory(info) ==
  IF Chars(info.name)[1] = "U" THEN "Object"
  ELSE IF Chars(info.name)[1] = "A" THEN "Actor"
  ELSE IF Chars(info.name)[1] = "F" THEN "Structure"
  ELSE IF \E j \in 1..Len(info.superclasses) : IndexOf(Chars(info.superclasses[j]), Chars("Component")) >= 0
  THEN "Component"
  ELSE "Miscellaneous"

\* determineModule(classInfo.file): the path part after 'Runtime', else 'Core'
determineModule(f) == IF Files[f].root = "UE" THEN Files[f].dir ELSE "Core"

\* The ApiReference getOrCreateApiReference builds from a ClassInfo.  The
\* classes of the model carry no comments: description, examples and remarks
\* are empty.
ApiReference(info) ==
  [className |-> info.name, category |-> determineCategory(info),
   module |-> determineModule(info.file), relatedClasses |-> info.superclasses]

ApiHas(api, n) == \E j \in 1..Len(api) : api[j].className = n

\* getOrCreateApiReference for every entry of the Class Cache, in order
RECURSIVE CreateApiReferences(_, _)
CreateApiReferences(api, cls) ==
  IF cls = <<>> THEN api
  ELSE CreateApiReferences(IF ApiHas(api, Head(cls).name) THEN api
                           ELSE Append(api, ApiReference(Head(cls))),
                           Tail(cls))

ApiGet(api, n) == api[CHOOSE j \in 1..Len(api) : api[j].className = n]

\* getOrCreateApiReference(classInfo): the cached reference of the name if
\* there is one, else a new one
getOrCreateApiReference(api, info) ==
  IF ApiHas(api, info.name) THEN ApiGet(api, info.name) ELSE ApiReference(info)

\* [a, b, ...].join(' ')
RECURSIVE Join(_)
Join(ss) ==
  IF ss = <<>> THEN <<>>
  ELSE IF Len(ss) = 1 THEN Chars(ss[1])
  ELSE Chars(Head(ss)) \o <<" ">> \o Join(Tail(ss))

\* calculateApiRelevance with the category left out of the score
calculateApiRelevance_NoCategory(apiRef, searchTerms) ==
  LET text == LowerSeq(Join(<<apiRef.className, "", apiRef.category, apiRef.module>>
                            \o apiRef.relatedClasses))
      ScoreOf(term) ==
        (IF IncludesLower(Chars(apiRef.className), Chars(term)) THEN 10 ELSE 0)
        + (IF IncludesLower(Chars(apiRef.module), Chars(term)) THEN 5 ELSE 0)
        + (IF IndexOf(text, Chars(term)) >= 0 THEN 2 ELSE 0)
      Sum[j \in 0..Len(searchTerms)] == IF j = 0 THEN 0 ELSE Sum[j - 1] + ScoreOf(searchTerms[j])
  IN  Sum[Len(searchTerms)]

\* calculateApiRelevance(apiRef, searchTerms)
calculateApiRelevance(apiRef, searchTerms) ==
  LET text == LowerSeq(Join(<<apiRef.className, "", apiRef.category, apiRef.module>>
                            \o apiRef.relatedClasses))
      ScoreOf(term) ==
        (IF IncludesLower(Chars(apiRef.className), Chars(term)) THEN 10 ELSE 0)
        + (IF IncludesLower(Chars(apiRef.category), Chars(term)) THEN 5 ELSE 0)
        + (IF IncludesLower(Chars(apiRef.module), Chars(term)) THEN 5 ELSE 0)
        + (IF IndexOf(text, Chars(term)) >= 0 THEN 2 ELSE 0)
      Sum[j \in 0..Len(searchTerms)] == IF j = 0 THEN 0 ELSE Sum[j - 1] + ScoreOf(searchTerms[j])
  IN  Sum[Len(searchTerms)]

\* results.sort((a, b) => b.relevance - a.relevance): stable, descending
RECURSIVE SortByRelevance(_)
SortByRelevance(rs) ==
  IF rs = <<>> THEN <<>>
  ELSE LET top == CHOOSE j \in 1..Len(rs) :
                    /\ \A k \in 1..Len(rs) : rs[k].relevance <= rs[j].relevance
                    /\ \A k \in 1..(j - 1) : rs[k].relevance < rs[j].relevance
       IN  <<rs[top]>> \o SortByRelevance(SubSeq(rs, 1, top - 1) \o SubSeq(rs, top + 1, Len(rs)))

\* The loop of queryApiReference over the Class Cache, api being the Api
\* Cache at the start of the call
RECURSIVE ApiResults(_, _, _, _)
ApiResults(cls, api, searchTerms, options) ==
  IF cls = <<>> THEN <<>>
  ELSE LET apiRef    == getOrCreateApiReference(api, Head(cls))
           relevance == calculateApiRelevance(apiRef, searchTerms)
           rest      == ApiResults(Tail(cls), api, searchTerms, options)
       IN  IF options.category # "" /\ apiRef.category # options.category THEN rest
           ELSE IF options.module # "" /\ apiRef.module # options.module THEN rest
           ELSE IF relevance > 0 THEN <<[reference |-> apiRef, relevance |-> relevance]>> \o rest
           ELSE rest

\* options.maxResults || 10
DEFAULT_MAX_RESULTS == 10

\* query is the list of the terms of the query string; options.hasMax tells
\* whether maxResults is given
queryApiReference(query, options) ==
  /\ Idle
  /\ Called("queryApiReference", <<query, options>>)
  /\ IF ~initialized
     THEN /\ Commit(Settle(Begin("queryApiReference"), 1, "err", Err("Analyzer not initialized", 0)))
          /\ UNCHANGED apiCache
     ELSE LET api     == CreateApiReferences(apiCache, classCache)
              results == SortByRelevance(ApiResults(classCache, apiCache, query, options))
              limit   == IF options.hasMax /\ options.maxResults # 0
                         THEN options.maxResults ELSE DEFAULT_MAX_RESULTS
          IN  /\ apiCache' = api
              /\ Commit(Settle(Begin("queryApiReference"), 1, "ok",
                               [t |-> "api", results |-> Slice(results, 0, limit)]))
  /\ UNCHANGED <<initialized, unrealPath, customPath, unreadable>>

----------------------------------------------------------------------------
(* The event loop: one microtask at a time, in queue order.                 *)

Job == Head(mq)

Popped == [Store EXCEPT !.mq = Tail(@)]

Runs(kind, evs) == mq # <<>> /\ Job.fr # 0 /\ frames[Job.fr].kind = kind /\ Job.ev \in evs

\* The caller's `await` of the operation's promise resumes
Deliver ==
  /\ mq # <<>> /\ Job.fr = 0
  /\ call' = [call EXCEPT !.status = IF Job.ev = "ok" THEN "resolved" ELSE "rejected",
                          !.result = Job.val]
  /\ Commit(Popped)
  /\ UNCHANGED <<ncalls, pre>>
  /\ Keep

ParseFileStep ==
  /\ Runs("parseFile", {"ok"})
  /\ Commit(parseFileResume(Popped, Job.fr))
  /\ KeepCall /\ Keep

\* initialize / initializeCustomCodebase resumed after `await this.buildInitialCache()`
InitializeStep ==
  /\ Runs("initialize", {"ok", "err"})
  /\ Commit(Settle(Popped, Job.fr, Job.ev, Job.val))
  /\ KeepCall /\ Keep

BuildInitialCacheStep ==
  /\ Runs("buildInitialCache", {"ok", "err"})
  /\ Commit(ScanResume(Popped, Job))
  /\ KeepCall /\ Keep

AnalyzeSubsystemStep ==
  /\ Runs("analyzeSubsystem", {"ok", "err"})
  /\ Commit(ScanResume(Popped, Job))
  /\ KeepCall /\ Keep

SubsystemFileStep ==
  /\ Runs("subsystemFile", {"ok", "err"})
  /\ Commit(subsystemFileResume(Popped, Job))
  /\ KeepCall /\ Keep

AnalyzeClassStep ==
  /\ Runs("analyzeClass", {"ok", "err"})
  /\ Commit(analyzeClassResume(Popped, Job))
  /\ KeepCall /\ Keep

\* The activations of findClassHierarchy the current call has made
Depth == Len(SelectSeq(frames, LAMBDA fr : fr.kind = "findClassHierarchy"))

FindClassHierarchyStep ==
  /\ Runs("findClassHierarchy", {"ok", "err"})
  /\ Depth < MaxHierarchy
  /\ Commit(findClassHierarchyResume(Popped, Job))
  /\ KeepCall /\ Keep

SuperclassStep ==
  /\ Runs("superclass", {"ok", "err"})
  /\ Commit(superclassResume(Popped, Job))
  /\ KeepCall /\ Keep

FindReferencesStep ==
  /\ Runs("findReferences", {"ok", "err"})
  /\ Commit(SyncScanResume(Popped, Job))
  /\ KeepCall /\ Keep

SearchCodeStep ==
  /\ Runs("searchCode", {"ok", "err"})
  /\ Commit(SyncScanResume(Popped, Job))
  /\ KeepCall /\ Keep

\* A reaction of Promise.all to one of its elements
PromiseAllStep ==
  /\ mq # <<>> /\ Job.fr # 0 /\ Job.ev \in {"elemok", "elemerr"}
  /\ Commit(OnElem(Popped, Job))
  /\ KeepCall /\ Keep

----------------------------------------------------------------------------

(* The arguments the callers pass.                                          *)

ClassArgs == {"UObject", "FRender", "Derived", "Nowhere"}

IdentifierArgs == {"UObject"}

TypeArgs == {"class", "undefined"}

QueryArgs == {<<"a", "b">>}

PatternArgs == {{"h", "cpp"}}

SubsystemArgs == {"Rendering", "Physics", "Audio", "Gameplay"}

ApiQueryArgs == {<<"actor">>}

ApiOptions(c, m, h, n) == [category |-> c, module |-> m, hasMax |-> h, maxResults |-> n]

ApiOptionArgs == {ApiOptions("", "", FALSE, 0), ApiOptions("", "", TRUE, 0), ApiOptions("", "", TRUE, 1),
                  ApiOptions("Actor", "", FALSE, 0), ApiOptions("", "CoreUObject", FALSE, 0)}

Init ==
  /\ initialized = FALSE
  /\ unrealPath = ""
  /\ customPath = ""
  /\ astCache = <<>>
  /\ cacheQueue = <<>>
  /\ classCache = <<>>
  /\ queryCache = QUERY_PATTERNS
  /\ apiCache = <<>>
  /\ frames = <<>>
  /\ mq = <<>>
  /\ call = [op |-> "none", arg |-> "", status |-> "none", result |-> NoVal]
  /\ readLog = <<>>
  /\ parseLog = <<>>
  /\ evictLog = <<>>
  /\ pre = [initialized |-> FALSE, unrealPath |-> "", customPath |-> "", ast |-> <<>>, q |-> <<>>,
            cls |-> <<>>, qc |-> QUERY_PATTERNS, api |-> <<>>]
  /\ unreadable \in BadChoices
  /\ ncalls = 0

Next ==
  \/ \E p \in PathArgs : initialize(p)
  \/ \E p \in CustomPathArgs : initializeCustomCodebase(p)
  \/ \E c \in ClassArgs : analyzeClassCall(c)
  \/ \E c \in ClassArgs : findClassHierarchyCall(c)
  \/ \E c \in IdentifierArgs, ty \in TypeArgs : findReferences(c, ty)
  \/ \E q \in QueryArgs, fp \in PatternArgs, ic \in BOOLEAN : searchCode(q, fp, ic)
  \/ \E q \in QueryArgs, fp \in PatternArgs, ic \in BOOLEAN : searchCodeSequential(q, fp, ic)
  \/ \E n \in SubsystemArgs : analyzeSubsystem(n)
  \/ \E q \in ApiQueryArgs, o \in ApiOptionArgs : queryApiReference(q, o)
  \/ Deliver
  \/ AnalyzeSubsystemStep
  \/ SubsystemFileStep
  \/ AnalyzeClassStep
  \/ FindClassHierarchyStep
  \/ SuperclassStep
  \/ FindReferencesStep
  \/ SearchCodeStep
  \/ ParseFileStep
  \/ InitializeStep
  \/ BuildInitialCacheStep
  \/ PromiseAllStep

Spec == Init /\ [][Next]_vars

----------------------------------------------------------------------------
(* detectPatterns and the server's call_tool handler.                       *)

UNREAL_PATTERNS == <<"UPROPERTY Macro", "Component Setup", "Event Binding">>

\* The lines of the file handed to detectPatterns
Lines(f) ==
  IF f = 4
  THEN <<"UPROPERTY(Replicated)", "float Health;",
         "OnHit.AddDynamic(this, &AHero::Hit);", "UPROPERTY(EditAnywhere) int32 Ammo;">>
  ELSE <<"float Health;">>

\* line.includes(example.split('\n')[0]) for one of the pattern's examples
IncludesExample(line, patternName) ==
  patternName = "UPROPERTY Macro" /\ line = "UPROPERTY(Replicated)"

\* patternMatchers[patternName]?.test(line) || false
isPatternMatch(line, patternName) ==
  CASE patternName = "UPROPERTY Macro" ->
         line \in {"UPROPERTY(Replicated)", "UPROPERTY(EditAnywhere) int32 Ammo;"}
    [] patternName = "Component Setup" -> FALSE
    [] patternName = "Event Binding"   -> line = "OnHit.AddDynamic(this, &AHero::Hit);"
    [] OTHER -> FALSE

\* The inner loop of detectPatterns: the matches of one pattern from line i on
RECURSIVE PatternMatches(_, _, _, _)
PatternMatches(lines, filePath, patternName, i) ==
  IF i > Len(lines) THEN <<>>
  ELSE (IF IncludesExample(lines[i], patternName) \/ isPatternMatch(lines[i], patternName)
        THEN <<[pattern |-> patternName, file |-> filePath, line |-> i]>>
        ELSE <<>>) \o PatternMatches(lines, filePath, patternName, i + 1)

\* The outer loop of detectPatterns: pattern by pattern
RECURSIVE AllPatternMatches(_, _, _)
AllPatternMatches(lines, filePath, ps) ==
  IF ps = <<>> THEN <<>>
  ELSE PatternMatches(lines, filePath, Head(ps), 1) \o AllPatternMatches(lines, filePath, Tail(ps))

detectPatterns(fileContent, filePath) ==
  /\ Idle
  /\ Called("detectPatterns", filePath)
  /\ Commit(Settle(Begin("detectPatterns"), 1, "ok",
                   [t |-> "patterns", matches |-> AllPatternMatches(fileContent, filePath, UNREAL_PATTERNS)]))
  /\ Keep

\* The handler itself throws: no operation of the analyzer is called
Throws(name, error) ==
  /\ Idle
  /\ call' = [op |-> "call_tool", arg |-> name, status |-> "rejected", result |-> error]
  /\ ncalls' = ncalls + 1
  /\ pre' = Fields
  /\ Commit(Begin0)
  /\ Keep

UnknownTool(name) == [t |-> "err", msg |-> "Unknown tool: ", tool |-> name]

\* fs.promises.readFile(args.filePath), then analyzer.detectPatterns
handleDetectPatterns(filePath) ==
  IF filePath \in unreadable
  THEN /\ Idle
       /\ Called("detectPatterns", filePath)
       /\ Commit(Settle(Begin("detectPatterns"), 1, "err", Err("read failed", filePath)))
       /\ Keep
  ELSE detectPatterns(Lines(filePath), filePath)

BestPractices == {"UPROPERTY", "UFUNCTION", "Components", "Events", "Replication", "Blueprints"}

handleGetBestPractices(concept) ==
  /\ Idle
  /\ Called("getBestPractices", concept)
  /\ IF concept \in BestPractices
     THEN Commit(Settle(Begin("getBestPractices"), 1, "ok", [t |-> "concept", name |-> concept]))
     ELSE Commit(Settle(Begin("getBestPractices"), 1, "err",
                        [t |-> "err", msg |-> "Unknown concept: ", concept |-> concept]))
  /\ Keep

\* A handler that also asks for an initialized analyzer before detect_patterns
analysisTools_AndPatterns ==
  {"analyze_class", "find_class_hierarchy", "find_references", "search_code",
   "analyze_subsystem", "query_api", "detect_patterns"}

analysisTools ==
  {"analyze_class", "find_class_hierarchy", "find_references", "search_code",
   "analyze_subsystem", "query_api"}

\* The arguments the clients of the server pass
ToolArgs == {"detect_patterns", "get_best_practices", "set_unreal_path", "set_custom_codebase",
             "analyze_class", "find_class_hierarchy", "find_references", "search_code",
             "analyze_subsystem", "query_api", "list_classes", "analyzeClass"}

ToolPathArgs == {"UE", "Missing"}

ToolClassArgs == {"UObject", "Nowhere"}

PatternFileArgs == {4}

ConceptArgs == {"UPROPERTY", "Singleton"}

\* The call_tool request handler
callTool(name) ==
  IF /\ name \in analysisTools /\ ~initialized
     /\ name # "set_unreal_path" /\ name # "set_custom_codebase"
  THEN Throws(name, Err("No codebase initialized. Use set_unreal_path or set_custom_codebase first.", 0))
  ELSE CASE name = "detect_patterns"      -> \E f \in PatternFileArgs : handleDetectPatterns(f)
         [] name = "get_best_practices"   -> \E c \in ConceptArgs : handleGetBestPractices(c)
         [] name = "set_unreal_path"      -> \E p \in ToolPathArgs : initialize(p)
         [] name = "set_custom_codebase"  -> initializeCustomCodebase("Proj")
         [] name = "analyze_class"        -> \E c \in ToolClassArgs : analyzeClassCall(c)
         [] name = "find_class_hierarchy" -> findClassHierarchyCall("FRender")
         [] name = "find_references"      -> findReferences("UObject", "class")
         [] name = "search_code"          -> searchCode(<<"a", "b">>, {"h", "cpp"}, FALSE)
         [] name = "analyze_subsystem"    -> analyzeSubsystem("Rendering")
         [] name = "query_api"            -> queryApiReference(<<"actor">>, ApiOptions("", "", FALSE, 0))
         [] OTHER                         -> Throws(name, UnknownTool(name))

NextServer ==
  \/ \E name \in ToolArgs : callTool(name)
  \/ Deliver
  \/ AnalyzeSubsystemStep
  \/ SubsystemFileStep
  \/ AnalyzeClassStep
  \/ FindClassHierarchyStep
  \/ SuperclassStep
  \/ FindReferencesStep
  \/ SearchCodeStep
  \/ ParseFileStep
  \/ InitializeStep
  \/ BuildInitialCacheStep
  \/ PromiseAllStep

SpecServer == Init /\ [][NextServer]_vars

----------------------------------------------------------------------------
(* The analyzer pointed at the "Lab" codebase.                              *)

LabBadChoices == { {}, {12} }

LabClassArgs == {"Loop", "Ping", "AActor"}

InitLab ==
  /\ initialized = FALSE
  /\ unrealPath = ""
  /\ customPath = ""
  /\ astCache = <<>>
  /\ cacheQueue = <<>>
  /\ classCache = <<>>
  /\ queryCache = QUERY_PATTERNS
  /\ apiCache = <<>>
  /\ frames = <<>>
  /\ mq = <<>>
  /\ call = [op |-> "none", arg |-> "", status |-> "none", result |-> NoVal]
  /\ readLog = <<>>
  /\ parseLog = <<>>
  /\ evictLog = <<>>
  /\ pre = [initialized |-> FALSE, unrealPath |-> "", customPath |-> "", ast |-> <<>>, q |-> <<>>,
            cls |-> <<>>, qc |-> QUERY_PATTERNS, api |-> <<>>]
  /\ unreadable \in LabBadChoices
  /\ ncalls = 0

NextLab ==
  \/ initializeCustomCodebase("Lab")
  \/ \E c \in LabClassArgs : findClassHierarchyCall(c)
  \/ queryApiReference(<<"actor">>, ApiOptions("", "", FALSE, 0))
  \/ Deliver
  \/ AnalyzeClassStep
  \/ FindClassHierarchyStep
  \/ SuperclassStep
  \/ ParseFileStep
  \/ InitializeStep
  \/ BuildInitialCacheStep
  \/ PromiseAllStep

SpecLab == InitLab /\ [][NextLab]_vars

----------------------------------------------------------------------------
(* Properties.                                                              *)

IsPrefix(s, t) == Len(s) <= Len(t) /\ s = SubSeq(t, 1, Len(s))

Last(s) == s[Len(s)]

Declares(f, c) == \E k \in 1..Len(Files[f].classes) : Files[f].classes[k].name = c

Running == call.status = "running"

Resolved == call.status = "resolved"

Rejected == call.status = "rejected"

\* A call that has not been answered has a job waiting
Pending == Running => mq # <<>>

CachesUnchanged ==
  /\ astCache = pre.ast
  /\ cacheQueue = pre.q
  /\ classCache = pre.cls
  /\ queryCache = pre.qc
  /\ apiCache = pre.api

PathsUnchanged == unrealPath = pre.unrealPath /\ customPath = pre.customPath

QueryOps == {"analyzeClass", "findClassHierarchy", "findReferences", "searchCode",
             "analyzeSubsystem", "queryApiReference"}

\* C1: while the analyzer is not initialized, a call of analyzeClass,
\* findClassHierarchy, findReferences, searchCode, analyzeSubsystem or
\* queryApiReference rejects with 'Analyzer not initialized', reads no file
\* and leaves the four caches and both paths as they were.
C1_NotInitialized ==
  (call.op \in QueryOps /\ ~pre.initialized) =>
    /\ ~Resolved
    /\ Pending
    /\ Rejected => call.result = Err("Analyzer not initialized", 0)
    /\ readLog = <<>>
    /\ CachesUnchanged
    /\ PathsUnchanged
    /\ ~initialized

C1_Witness ==
  /\ call.op = "findClassHierarchy"
  /\ ~pre.initialized
  /\ Rejected
  /\ ncalls > 1

InvalidPathCall ==
  \/ call.op = "initialize" /\ call.arg \in {"Proj", "Missing"}
  \/ call.op = "initializeCustomCodebase" /\ call.arg = "Missing"

\* C2: initialize(p) with p missing or without an Engine directory, and
\* initializeCustomCodebase(p) with p missing, reject with the invalid-path
\* error; isInitialized(), both paths and all caches stay as they were, and no
\* file is read.
C2_InvalidPath ==
  InvalidPathCall =>
    /\ ~Resolved
    /\ Pending
    /\ Rejected =>
         call.result.msg = (CASE call.op = "initializeCustomCodebase" -> "Invalid custom codebase path: Directory does not exist"
                              [] call.arg = "Missing" -> "Invalid Unreal Engine path: Directory does not exist"
                              [] OTHER -> "Invalid Unreal Engine path: Engine directory not found")
    /\ initialized = pre.initialized
    /\ PathsUnchanged
    /\ CachesUnchanged
    /\ readLog = <<>>

C2_Witness ==
  /\ call.op = "initialize"
  /\ call.arg = "Proj"
  /\ Rejected
  /\ pre.initialized
  /\ pre.cls # <<>>

\* The headers under the search root of the current call, in enumeration order
PreSearchPath == IF pre.customPath # "" THEN pre.customPath ELSE pre.unrealPath

SearchHeaders == Glob(PreSearchPath, AllDirs, {"h"})

\* C3: on an initialized analyzer analyzeClass(name) returns the cached entry
\* without reading a file when there is one; otherwise it reads the headers of
\* the search root in enumeration order, returns after the first header that
\* brings name into the Class Cache, and fails with 'Class not found' only
\* when every header has been read and name is still not cached.
C3_AnalyzeClass ==
  (call.op = "analyzeClass" /\ pre.initialized) =>
    /\ Pending
    /\ IF ClassHas(pre.cls, call.arg)
       THEN /\ readLog = <<>>
            /\ ~Rejected
            /\ Resolved => call.result = ClassGet(pre.cls, call.arg)
       ELSE /\ IsPrefix(readLog, SearchHeaders)
            /\ \A j \in 1..(Len(readLog) - 1) : ~Declares(readLog[j], call.arg)
            /\ Resolved =>
                 /\ readLog # <<>>
                 /\ Declares(Last(readLog), call.arg)
                 /\ call.result = ClassInfo(Decl(call.arg, call.result.superclasses), Last(readLog))
                 /\ call.result = ClassGet(classCache, call.arg)
            /\ Rejected =>
                 \/ /\ call.result = Err("Class not found", 0)
                    /\ readLog = SearchHeaders
                    /\ ~ClassHas(classCache, call.arg)
                 \/ /\ readLog # <<>>
                    /\ Last(readLog) \in unreadable
                    /\ call.result = Err("read failed", Last(readLog))

C3_Witness ==
  /\ call.op = "analyzeClass"
  /\ pre.initialized
  /\ ~ClassHas(pre.cls, call.arg)
  /\ Resolved
  /\ Len(readLog) >= 2

\* The headers before the first unreadable one
RECURSIVE ReadablePrefix(_)
ReadablePrefix(fs) ==
  IF fs = <<>> \/ Head(fs) \in unreadable THEN <<>>
  ELSE <<Head(fs)>> \o ReadablePrefix(Tail(fs))

\* analyzeClass can find c: it is cached, or a header that can be reached declares it
CanBeFound(c) ==
  \/ ClassHas(pre.cls, c)
  \/ \E f \in Range(ReadablePrefix(SearchHeaders)) : Declares(f, c)

\* The superclass names of c as analyzeClass reports them
DeclaredSupers(c) ==
  IF ClassHas(pre.cls, c) THEN ClassGet(pre.cls, c).superclasses
  ELSE LET hs == ReadablePrefix(SearchHeaders)
           j  == CHOOSE j \in 1..Len(hs) : Declares(hs[j], c) /\ \A i \in 1..(j - 1) : ~Declares(hs[i], c)
           ds == Files[hs[j]].classes
       IN  ds[CHOOSE k \in 1..Len(ds) : ds[k].name = c].supers

\* The hierarchy of c with every superclass that cannot be found left out,
\* the superclasses of a node as a set
RECURSIVE ExpectedTree(_)
ExpectedTree(c) ==
  [className |-> c,
   superclasses |-> {ExpectedTree(x) : x \in {y \in Range(DeclaredSupers(c)) : CanBeFound(y)}}]

RECURSIVE SetTree(_)
SetTree(node) ==
  [className |-> node.className,
   superclasses |-> {SetTree(node.superclasses[j]) : j \in 1..Len(node.superclasses)}]

\* no node lists a superclass twice
RECURSIVE NoRepeat(_)
NoRepeat(node) ==
  /\ \A i, j \in 1..Len(node.superclasses) :
        i # j => node.superclasses[i].className # node.superclasses[j].className
  /\ \A j \in 1..Len(node.superclasses) : NoRepeat(node.superclasses[j])

\* C4: findClassHierarchy(c) on an initialized analyzer rejects only when c
\* itself cannot be found; otherwise it resolves, and at every depth a node
\* lists exactly those of its declared superclasses that can be found.
C4_Hierarchy ==
  (call.op = "findClassHierarchy" /\ pre.initialized) =>
    /\ Pending
    /\ Rejected => ~CanBeFound(call.arg)
    /\ Resolved =>
         /\ CanBeFound(call.arg)
         /\ NoRepeat(call.result)
         /\ SetTree(call.result) = ExpectedTree(call.arg)

C4_Witness ==
  /\ call.op = "findClassHierarchy"
  /\ call.arg = "Derived"
  /\ pre.initialized
  /\ Resolved
  /\ Len(call.result.superclasses) >= 2
  /\ \A j \in 1..Len(call.result.superclasses) : call.result.superclasses[j].className # "Missing"
  /\ \E j \in 1..Len(call.result.superclasses) :
        /\ call.result.superclasses[j].className = "Base"
        /\ Len(call.result.superclasses[j].superclasses) = 1
        /\ call.result.superclasses[j].superclasses[1].superclasses = <<>>

----------------------------------------------------------------------------

BatchedOps == {"initialize", "initializeCustomCodebase", "findReferences", "searchCode",
               "analyzeSubsystem"}

\* The file lists the current call scans, one per base directory, and the
\* size of its batches
ScanLists ==
  CASE call.op \in {"initialize", "initializeCustomCodebase"} ->
         IF unrealPath # ""
         THEN <<Glob(unrealPath, {"Core"}, {"h"}), Glob(unrealPath, {"CoreUObject"}, {"h"})>>
         ELSE <<Glob(customPath, AllDirs, {"h"})>>
    [] call.op = "findReferences" -> <<Glob(PreSearchPath, AllDirs, {"h", "cpp"})>>
    [] call.op = "searchCode" -> <<Glob(unrealPath, AllDirs, call.arg[2])>>
    [] call.op = "analyzeSubsystem" -> <<Glob(unrealPath, {SubsystemDir(call.arg)}, {"h"})>>
    [] OTHER -> <<>>

ScanSize == IF call.op = "searchCode" THEN SEARCH_BATCH_SIZE ELSE BATCH_SIZE

\* the position of file f in the scan: its list, and its 0-based index there
ListOf(f) == CHOOSE l \in 1..Len(ScanLists) : f \in Range(ScanLists[l])

IndexIn(f) == (CHOOSE p \in 1..Len(ScanLists[ListOf(f)]) : ScanLists[ListOf(f)][p] = f) - 1

\* f belongs to a later batch than g
LaterBatch(f, g) ==
  \/ ListOf(f) > ListOf(g)
  \/ ListOf(f) = ListOf(g) /\ IndexIn(f) \div ScanSize > IndexIn(g) \div ScanSize

FailedReads == {j \in 1..Len(readLog) : readLog[j] \in unreadable}

FirstFailed == readLog[CHOOSE j \in FailedReads : \A i \in FailedReads : j <= i]

\* C5: in a batched scan, once the processing of a file has rejected the
\* operation rejects with the error of the (first) file that rejected, returns
\* no references, and reads no file of a later batch.
C5_FailFast ==
  (call.op \in BatchedOps /\ FailedReads # {}) =>
    /\ ~Resolved
    /\ Pending
    /\ Rejected => call.result = Err("read failed", FirstFailed)
    /\ \A j \in 1..Len(readLog) : ~LaterBatch(readLog[j], FirstFailed)

C5_Witness ==
  /\ call.op = "findReferences"
  /\ Rejected
  /\ frames[1].acc # <<>>
  /\ FailedReads # {}
  /\ \E j \in 1..Len(readLog) : LaterBatch(FirstFailed, readLog[j])
  /\ Len(readLog) < Len(ScanLists[1])

----------------------------------------------------------------------------

\* the number of batches of the lists before list l
RECURSIVE BatchesBefore(_)
BatchesBefore(l) ==
  IF l = 1 THEN 0
  ELSE BatchesBefore(l - 1) + (Len(ScanLists[l - 1]) + ScanSize - 1) \div ScanSize

\* the 1-based number of the batch of file f
BatchNo(f) == BatchesBefore(ListOf(f)) + IndexIn(f) \div ScanSize + 1

AllScanFiles == IF Len(ScanLists) = 2 THEN ScanLists[1] \o ScanLists[2]
                ELSE IF Len(ScanLists) = 1 THEN ScanLists[1] ELSE <<>>

\* the frames of the files of the scan with frame id, in the order of creation
FileFrames(id) ==
  SelectSeq([j \in 1..Len(frames) |-> j],
            LAMBDA j : frames[j].parent = id /\ frames[j].kind \in {"parseFile", "subsystemFile"})

ScanFrame == IF call.op \in {"initialize", "initializeCustomCodebase"} THEN 2 ELSE 1

\* C6: a batched scan takes its files in enumeration order, in consecutive
\* batches of at most BATCH_SIZE (SEARCH_BATCH_SIZE for searchCode), and no
\* file of a batch is started while a file of an earlier batch is unfinished.
C6_Batches ==
  (call.op \in BatchedOps /\ Len(frames) >= ScanFrame /\ frames[ScanFrame].files # <<>>) =>
    IF call.op \in {"findReferences", "searchCode"}
    THEN readLog = SubSeq(AllScanFiles, 1, Min(frames[1].i * ScanSize, Len(AllScanFiles)))
    ELSE LET ff == FileFrames(ScanFrame)
         IN  /\ IsPrefix([j \in 1..Len(ff) |-> frames[ff[j]].f], AllScanFiles)
             /\ \A j \in 1..Len(ff) : frames[ff[j]].i = BatchNo(frames[ff[j]].f)
             /\ \A j, k \in 1..Len(ff) :
                   frames[ff[j]].i < frames[ff[k]].i => frames[ff[j]].st # "run"

C6_Witness ==
  /\ call.op = "initializeCustomCodebase"
  /\ Len(frames) >= 2
  /\ \E j, k \in 1..Len(frames) :
        /\ frames[j].kind = "parseFile" /\ frames[j].parent = 2 /\ frames[j].i = 1
        /\ frames[j].k > 0
        /\ frames[k].kind = "parseFile" /\ frames[k].parent = 2 /\ frames[k].i = 2
        /\ frames[k].st = "run"

----------------------------------------------------------------------------

\* C7: the Tree Cache never holds more than MAX_CACHE_SIZE trees.
C7_TreeCacheBounded == Len(astCache) <= MAX_CACHE_SIZE

\* C8: the Query Cache, the Class Cache and the Api Cache never hold more
\* than MAX_CACHE_SIZE entries each.
C8_OtherCachesBounded ==
  /\ Cardinality(queryCache) <= MAX_CACHE_SIZE
  /\ Len(classCache) <= MAX_CACHE_SIZE
  /\ Len(apiCache) <= MAX_CACHE_SIZE

\* C9: every insertion into the Tree Cache made at capacity evicts exactly the
\* key inserted earliest among the keys still present.
C9_EvictsOldest ==
  \A j \in 1..Len(evictLog) : evictLog[j].deleted = evictLog[j].oldest

\* C10: a file whose error-free tree has been in the Tree Cache since before
\* the call is not parsed again by the call, whichever scan it is.
C10_NoReparse ==
  \A j \in 1..Len(parseLog) : ~(parseLog[j].hit /\ parseLog[j].f \in Range(pre.ast))

----------------------------------------------------------------------------

\* how often x occurs in the sequence s
Count(s, x) == Cardinality({j \in 1..Len(s) : s[j] = x})

ParsedFiles == [j \in 1..Len(parseLog) |-> parseLog[j].f]

\* C11: every scan of a file whose tree reports a parse error parses the file
\* again, whichever tree-based operation scans it: in a call, such a file is
\* parsed as often as it is read.
C11_ErrorTreeReparsed ==
  call.op # "searchCode" =>
    \A f \in FileIds \ unreadable :
       Files[f].err => Count(ParsedFiles, f) = Count(readLog, f)

----------------------------------------------------------------------------

\* The lines of the files whose text, blanks aside, begins with // or /*
CommentLines == {<<3, 1>>, <<5, 1>>}

\* what searchCode returns for the files fs, file after file
RECURSIVE SearchAll(_, _, _)
SearchAll(fs, query, includeComments) ==
  IF fs = <<>> THEN <<>>
  ELSE SearchFile(Head(fs), query, includeComments) \o SearchAll(Tail(fs), query, includeComments)

WithComments == SearchAll(Glob(unrealPath, AllDirs, call.arg[2]), call.arg[1], TRUE)

\* C12: searchCode with includeComments = false returns the references of
\* includeComments = true, in the same order, less exactly those on lines that
\* begin (after blanks) with // or /*; a trailing comment does not drop a line.
C12_IncludeComments ==
  (call.op = "searchCode" /\ Resolved /\ call.arg[3] = FALSE) =>
    call.result.refs = SelectSeq(WithComments, LAMBDA r : <<r.file, r.line>> \notin CommentLines)

C12_Witness ==
  /\ call.op = "searchCode" /\ Resolved /\ call.arg[3] = FALSE
  /\ \E j \in 1..Len(WithComments) : WithComments[j].file = 3 /\ WithComments[j].line = 1
  /\ \E j \in 1..Len(WithComments) : WithComments[j].file = 5 /\ WithComments[j].line = 1
  /\ \E j \in 1..Len(call.result.refs) : call.result.refs[j].file = 3 /\ call.result.refs[j].line = 2
  /\ \A j \in 1..Len(call.result.refs) : call.result.refs[j].line # 1

----------------------------------------------------------------------------

\* C13: on an analyzer initialized by a successful initializeCustomCodebase
\* alone (no engine path configured), searchCode does not reject.
C13_SearchCustomCodebase ==
  (/\ call.op = "searchCode"
   /\ unreadable = {}
   /\ pre.initialized /\ pre.customPath # "" /\ pre.unrealPath = "") => ~Rejected

----------------------------------------------------------------------------

\* the lines of file f, from line i on, that searchCode is to report: those
\* the query matches without regard to case, less the skipped ones
RECURSIVE MatchingLines(_, _, _, _)
MatchingLines(f, i, query, skip) ==
  IF i > Len(Text(f)) THEN <<>>
  ELSE (IF IndexOf(LowerSeq(Text(f)[i]), LowerSeq(query)) >= 0 /\ <<f, i>> \notin skip
        THEN << <<f, i>> >> ELSE <<>>)
       \o MatchingLines(f, i + 1, query, skip)

RECURSIVE MatchingLinesOf(_, _, _)
MatchingLinesOf(fs, query, skip) ==
  IF fs = <<>> THEN <<>>
  ELSE MatchingLines(Head(fs), 1, query, skip) \o MatchingLinesOf(Tail(fs), query, skip)

\* C14: searchCode, sequential or batched, returns exactly one reference for
\* every non-skipped line the query matches without regard to case, and none
\* for any other line.
C14_OneReferencePerMatch ==
  (call.op \in {"searchCode", "searchCodeSequential"} /\ Resolved) =>
    [j \in 1..Len(call.result.refs) |-> <<call.result.refs[j].file, call.result.refs[j].line>>]
      = MatchingLinesOf(Glob(unrealPath, AllDirs, call.arg[2]), call.arg[1],
                        IF call.op = "searchCode" /\ ~call.arg[3] THEN CommentLines ELSE {})

----------------------------------------------------------------------------

\* C15: every CodeReference returned by searchCode or findReferences has a
\* line >= 1 and a column >= 1.
C15_OneBased ==
  (call.op \in {"searchCode", "findReferences"} /\ Resolved) =>
    \A j \in 1..Len(call.result.refs) :
       call.result.refs[j].line >= 1 /\ call.result.refs[j].column >= 1

----------------------------------------------------------------------------

KnownSubsystems == {"Rendering", "Physics", "Audio", "Networking", "Input", "AI", "Animation", "UI"}

\* C16: on an initialized analyzer analyzeSubsystem(name) fails with the
\* unknown-subsystem error for a name outside the eight known ones, and with
\* the directory-not-found error for a known name whose directory is absent
\* under the configured root; either way no file is read and the caches are
\* as before.
C16_SubsystemErrors ==
  (call.op = "analyzeSubsystem" /\ pre.initialized) =>
    /\ call.arg \notin KnownSubsystems =>
         /\ ~Resolved
         /\ Rejected => call.result.msg = "Unknown subsystem"
         /\ readLog = <<>> /\ CachesUnchanged
    /\ (call.arg \in KnownSubsystems /\ ~SubsystemDirExists(unrealPath, SubsystemDir(call.arg))) =>
         /\ ~Resolved
         /\ Rejected => call.result.msg = "Subsystem directory not found"
         /\ readLog = <<>> /\ CachesUnchanged

----------------------------------------------------------------------------

ApiOpts == call.arg[2]

\* C17: queryApiReference returns only classes with relevance > 0 that pass
\* the category and module filters, by non-increasing relevance, and at most
\* maxResults of them for every maxResults given (at most 10 when omitted).
C17_ApiResults ==
  (call.op = "queryApiReference" /\ Resolved) =>
    LET rs == call.result.results
    IN  /\ \A j \in 1..Len(rs) :
             /\ rs[j].relevance > 0
             /\ ClassHas(classCache, rs[j].reference.className)
             /\ ApiOpts.category # "" => rs[j].reference.category = ApiOpts.category
             /\ ApiOpts.module # "" => rs[j].reference.module = ApiOpts.module
        /\ \A j \in 1..(Len(rs) - 1) : rs[j].relevance >= rs[j + 1].relevance
        /\ Len(rs) <= IF ApiOpts.hasMax THEN ApiOpts.maxResults ELSE 10

----------------------------------------------------------------------------

\* some field of the reference contains the (lower-case) term
AnyFieldIncludes(ref, term) ==
  \E s \in {ref.className, ref.category, ref.module} \cup Range(ref.relatedClasses) :
     IncludesLower(Chars(s), Chars(term))

\* 10 for the class name, 5 for the category, 5 for the module, 2 for any
\* field, for one term
TermScore(ref, term) ==
  (IF IncludesLower(Chars(ref.className), Chars(term)) THEN 10 ELSE 0)
  + (IF IncludesLower(Chars(ref.category), Chars(term)) THEN 5 ELSE 0)
  + (IF IncludesLower(Chars(ref.module), Chars(term)) THEN 5 ELSE 0)
  + (IF AnyFieldIncludes(ref, term) THEN 2 ELSE 0)

RECURSIVE Relevance(_, _)
Relevance(ref, terms) ==
  IF terms = <<>> THEN 0 ELSE TermScore(ref, Head(terms)) + Relevance(ref, Tail(terms))

----------------------------------------------------------------------------

InitOps == {"initialize", "initializeCustomCodebase"}

\* the headers the initialization call is to scan: Core and CoreUObject of the
\* engine root, or every header of the custom root
InitHeaders ==
  IF call.op = "initialize" THEN Glob(call.arg, {"Core", "CoreUObject"}, {"h"})
  ELSE Glob(call.arg, AllDirs, {"h"})

\* C19: when initialize(root) or initializeCustomCodebase(root) has resolved,
\* every header of its directories has been scanned by it and every class
\* declared there is in the Class Cache, whatever calls came before.
C19_InitialScan ==
  (call.op \in InitOps /\ Resolved) =>
    \A f \in Range(InitHeaders) :
       /\ f \in Range(readLog)
       /\ \A j \in 1..Len(Files[f].classes) : ClassHas(classCache, Files[f].classes[j].name)

----------------------------------------------------------------------------

\* C20: isInitialized() is false on a new analyzer, true once an initialize or
\* initializeCustomCodebase call has resolved, and never goes back to false,
\* not even by an initialization call that fails.
C20_InitializedStays ==
  /\ ~initialized
  /\ []((call.op \in InitOps /\ Resolved) => initialized)
  /\ [][initialized => initialized']_vars

C20_Witness ==
  /\ call.op \in InitOps /\ Rejected
  /\ call.arg = "Missing"
  /\ pre.initialized /\ initialized


----------------------------------------------------------------------------
\* C21: detectPatterns, called before any initialization call, fails with
\* 'Analyzer not initialized' like the other query operations.
C21_DetectPatternsNotInitialized ==
  (call.op = "detectPatterns" /\ ~pre.initialized) =>
    /\ ~Resolved
    /\ Rejected => call.result = Err("Analyzer not initialized", 0)

----------------------------------------------------------------------------
\* The tools that need an initialized analyzer, and the operation each known
\* tool is dispatched to
GuardedTools == {"analyze_class", "find_class_hierarchy", "find_references", "search_code",
                 "analyze_subsystem", "query_api"}

OpOfTool(name) ==
  CASE name = "set_unreal_path"      -> "initialize"
    [] name = "set_custom_codebase"  -> "initializeCustomCodebase"
    [] name = "detect_patterns"      -> "detectPatterns"
    [] name = "get_best_practices"   -> "getBestPractices"
    [] name = "analyze_class"        -> "analyzeClass"
    [] name = "find_class_hierarchy" -> "findClassHierarchy"
    [] name = "find_references"      -> "findReferences"
    [] name = "search_code"          -> "searchCode"
    [] name = "analyze_subsystem"    -> "analyzeSubsystem"
    [] name = "query_api"            -> "queryApiReference"
    [] OTHER                         -> ""

\* The handler threw error for tool name, and the analyzer was not touched
Refused(name, error) ==
  /\ call' = [op |-> "call_tool", arg |-> name, status |-> "rejected", result |-> error]
  /\ frames' = <<>> /\ mq' = <<>>
  /\ readLog' = <<>> /\ parseLog' = <<>>
  /\ UNCHANGED <<initialized, unrealPath, customPath, astCache, cacheQueue, classCache,
                 queryCache, apiCache>>

\* C23: the call_tool handler rejects with 'No codebase initialized. Use
\* set_unreal_path or set_custom_codebase first.' and calls no operation of
\* the analyzer exactly when the tool is one of analyze_class,
\* find_class_hierarchy, find_references, search_code, analyze_subsystem and
\* query_api and the analyzer is not initialized; every other known tool is
\* dispatched in every state, and an unknown name rejects with
\* 'Unknown tool: <name>' in every state.
C23_CallTool ==
  [][\A name \in ToolArgs :
       callTool(name) =>
         IF name \in GuardedTools /\ ~initialized
         THEN Refused(name, Err("No codebase initialized. Use set_unreal_path or set_custom_codebase first.", 0))
         ELSE IF OpOfTool(name) # ""
         THEN call'.op = OpOfTool(name)
         ELSE Refused(name, [t |-> "err", msg |-> "Unknown tool: ", tool |-> name])]_vars

C23_Witness ==
  /\ call.op = "call_tool" /\ call.arg = "query_api" /\ Rejected
  /\ ncalls > 1
  /\ ~initialized


----------------------------------------------------------------------------
\* The superclasses the files of root r declare for class c
SupersIn(r, c) ==
  UNION {Range(Files[f].classes[j].supers) :
           <<f, j>> \in {<<g, k>> \in FileIds \X (1..5) :
                           /\ Files[g].root = r /\ k <= Len(Files[g].classes)
                           /\ Files[g].classes[k].name = c}}

RECURSIVE ReachFrom(_, _, _)
ReachFrom(r, cs, n) ==
  IF n = 0 THEN cs ELSE ReachFrom(r, cs \cup UNION {SupersIn(r, c) : c \in cs}, n - 1)

\* c is among its own superclasses, directly or through other classes
OnCycle(r, c) == c \in ReachFrom(r, SupersIn(r, c), 5)

\* C22: findClassHierarchy on a class that names itself as a superclass, or
\* whose superclass chain leads back to itself through resolvable classes,
\* never returns: the call stays pending and there is always one more
\* activation to run.
C22_CycleNeverReturns ==
  (call.op = "findClassHierarchy" /\ pre.initialized /\ OnCycle(pre.customPath, call.arg)) =>
    /\ Running
    /\ mq # <<>> /\ Job.fr # 0

C22_Witness ==
  /\ call.op = "findClassHierarchy" /\ call.arg = "Ping" /\ pre.initialized
  /\ Running
  /\ Depth >= MaxHierarchy
  /\ \E j \in 1..Len(frames) : frames[j].kind = "findClassHierarchy" /\ frames[j].c = "Pong"


----------------------------------------------------------------------------
\* One put taken as a whole: capacity check, eviction of the front key of the
\* queue, insertion into the Map, append to the queue
SerialPut(c, key) ==
  LET evict == Len(c.ast) >= MAX_CACHE_SIZE /\ c.q # <<>>
      ast1  == IF evict THEN Remove(c.ast, Head(c.q)) ELSE c.ast
  IN  [ast |-> IF key \in Range(ast1) THEN ast1 ELSE Append(ast1, key),
       q   |-> Append(IF evict THEN Tail(c.q) ELSE c.q, key)]

RECURSIVE SerialPuts(_, _)
SerialPuts(c, keys) ==
  IF keys = <<>> THEN c ELSE SerialPuts(SerialPut(c, Head(keys)), Tail(keys))

\* The files a step parses: what it adds to the parse log (a call starts the
\* log afresh)
StepParses ==
  IF ncalls' # ncalls THEN parseLog' ELSE SubSeq(parseLog', Len(parseLog) + 1, Len(parseLog'))

\* analyzeSubsystem parses each header a second time without a put
StepPuts ==
  IF mq # <<>> /\ Job.fr # 0 /\ frames[Job.fr].kind = "subsystemFile" /\ ncalls' = ncalls
  THEN <<>>
  ELSE [j \in 1..Len(StepParses) |-> StepParses[j].f]

----------------------------------------------------------------------------
\* C25: in every reachable state the eviction queue holds exactly the keys of
\* the Tree Cache Map, each once, in the order of their insertion.
C25_QueueMatchesCache ==
  /\ Range(cacheQueue) = Range(astCache)
  /\ \A j, k \in 1..Len(cacheQueue) : cacheQueue[j] = cacheQueue[k] => j = k
  /\ cacheQueue = astCache


----------------------------------------------------------------------------
\* C26: when initialize or initializeCustomCodebase rejects, for whatever
\* reason (a file that cannot be read during the initial scan included),
\* isInitialized() and both paths are what they were before the call.
C26_FailedInitKeepsState ==
  (call.op \in InitOps /\ Rejected) =>
    /\ initialized = pre.initialized
    /\ PathsUnchanged


----------------------------------------------------------------------------
\* C27: once a batched scan has rejected because a file could not be read,
\* and the caller has observed the rejection, the operation changes neither
\* the Class Cache nor the Tree Cache any more.
C27_NoWriteAfterRejection ==
  [][(Rejected /\ call.op \in InitOps \cup BatchedOps /\ ncalls' = ncalls)
       => UNCHANGED <<classCache, astCache>>]_vars


----------------------------------------------------------------------------
\* the superclasses of every node are in the order of the class's declaration
RECURSIVE InDeclaredOrder(_)
InDeclaredOrder(node) ==
  LET names == [j \in 1..Len(node.superclasses) |-> node.superclasses[j].className]
  IN  /\ names = SelectSeq(DeclaredSupers(node.className), LAMBDA x : x \in Range(names))
      /\ \A j \in 1..Len(node.superclasses) : InDeclaredOrder(node.superclasses[j])

\* C28: the superclasses list of every node of the hierarchy the parallel
\* findClassHierarchy returns is in the declared order of the class's
\* superclasses (those that cannot be resolved left out), whatever the order
\* in which the sub-hierarchies complete: the tree is the one the sequential
\* findClassHierarchy builds.
C28_DeclaredOrder ==
  (call.op = "findClassHierarchy" /\ pre.initialized /\ Resolved) => InDeclaredOrder(call.result)


----------------------------------------------------------------------------
\* C29: after a batched scan in which two files of one batch each declare a
\* class N, the Class Cache entry of N is the one from the later of the two
\* in enumeration order.
C29_LaterFileWins ==
  (call.op \in InitOps /\ Resolved) =>
    \A f, g \in Range(AllScanFiles) : \A n \in DOMAIN classCache :
      ( /\ f < g /\ BatchNo(f) = BatchNo(g)
        /\ Declares(f, classCache[n].name) /\ Declares(g, classCache[n].name)
        /\ \A h \in Range(AllScanFiles) : Declares(h, classCache[n].name) => h \in {f, g} )
      => classCache[n].file = g


----------------------------------------------------------------------------
\* C30: the ApiReference queryApiReference returns for a class is the
\* projection (related classes, category, module) of the ClassInfo the Class
\* Cache holds for that class now, also when a later scan has overwritten the
\* ClassInfo after the ApiReference was first built.
C30_ApiReferenceCurrent ==
  (call.op = "queryApiReference" /\ Resolved) =>
    \A j \in 1..Len(call.result.results) :
      LET ref  == call.result.results[j].reference
          info == ClassGet(classCache, ref.className)
      IN  /\ ref.relatedClasses = info.superclasses
          /\ ref.category = determineCategory(info)
          /\ ref.module = determineModule(info.file)

====
